---- MODULE Spec2Model ----
(***************************************************************************)
(* Model of halpid, the HALPI2 supervisory daemon:                         *)
(*   - the power-supervision loop        (src/src/halpi/state_machine.py)  *)
(*   - the register transport and the DFU upload (src/src/halpi/i2c.py)    *)
(*   - the single-threaded event loop that runs both (daemon.py,server.py) *)
(* Voltages are whole volts, the wall clock is whole seconds.              *)
(***************************************************************************)
EXTENDS Integers, Sequences, FiniteSets, TLC

\* ------------------------------------------------------------------ bounds
MaxStep == 2          \* largest clock advance between two polling cycles
MaxTimeLimit == 2     \* largest configured blackout_time_limit
BusWindow == 4        \* number of bus messages the bus observer keeps
MaxTime == 4 * MaxStep + MaxTimeLimit + 2
MaxBlocks == 4        \* largest image, in flash blocks
MaxPolls == 2         \* polls a readiness gate or the drain makes before its window is over
MaxMajor == 3         \* largest firmware major version
Grain == 4            \* analog values are the multiples k / Grain of the full scale
MaxBlockNum == 5      \* block numbers 0 .. MaxBlockNum, 258 and 65535 are uploaded
MaxData == 2          \* short blocks: every byte sequence over DataBytes up to this length
MaxUploads == 2       \* firmware-update requests served by one daemon run
MaxStatusByte == 9    \* status bytes 0..MaxStatusByte and 255 are read from register 0x41

\* --------------------------------------------------------------- constants
DEFAULT_BLACKOUT_VOLTAGE_LIMIT == 9
REG_WATCHDOG == 18         \* 0x12
REG_DCIN == 32             \* 0x20
REG_SHUTDOWN == 48         \* 0x30
REG_DFU_START == 64        \* 0x40
REG_DFU_STATUS == 65       \* 0x41
REG_DFU_BLOCKS == 66       \* 0x42
REG_DFU_UPLOAD == 67       \* 0x43
REG_DFU_COMMIT == 68       \* 0x44
REG_DFU_ABORT == 69        \* 0x45
FLASH_BLOCK_SIZE == 4096
WATCHDOG_TIMEOUT == 10  \* seconds, armed in START
REG_POWER_ON == 19      \* 0x13
REG_POWER_OFF == 20     \* 0x14
REG_LED == 23           \* 0x17
ThresholdRegs == {REG_POWER_ON, REG_POWER_OFF}
MeasureRegs == 32 .. 35 \* 0x20 .. 0x23: input voltage, supercap voltage, input current, temperature

Voltages == (DEFAULT_BLACKOUT_VOLTAGE_LIMIT - 1) .. (DEFAULT_BLACKOUT_VOLTAGE_LIMIT + 1)
TimeLimits == 1 .. MaxTimeLimit
SMStates == {"START", "OK", "BLACKOUT", "SHUTDOWN", "DEAD"}
StatusBytes == (0 .. MaxStatusByte) \cup {255}
ImageSizes == {k * FLASH_BLOCK_SIZE + r : k \in 0 .. MaxBlocks - 1, r \in {0, 1, 100, FLASH_BLOCK_SIZE}}
BlocksWritten == 0 .. MaxBlocks
TermBlocks == 2           \* largest block count of the images of the termination runs
TermSizes == {k * FLASH_BLOCK_SIZE + r : k \in 0 .. TermBlocks - 1, r \in {0, 1, FLASH_BLOCK_SIZE}}

Min(a, b) == IF a < b THEN a ELSE b

VARIABLES
    \* run_state_machine: arguments and locals
    state, blackout_time, dcin_voltage,
    blackout_time_limit, blackout_voltage_limit, dry_run,
    sm_alive,          \* FALSE once an exception has left run_state_machine
    now,               \* time.time()
    \* the bus, as seen by an analyser keeping the last BusWindow messages
    bus,
    \* observers of the supervision loop
    wdWrites, sdWrites, poweroffs, lastReadOk, allReadsOk, lowSoFar, highSoFar,
    entered,
    anyReadOk,         \* TRUE once a voltage read has succeeded
    lowSince,          \* the voltage was below the limit in every cycle since the last OK -> BLACKOUT
    dipStart,          \* time of the last OK -> BLACKOUT state change
    wdValue,           \* the bytes of the last watchdog-timeout write of the loop, <<>> if none
    dwell,             \* cycles begun in the current state since it was entered (0, 1, 2 = more)
    \* upload_firmware_with_progress: position, argument and locals
    dfu_pc,            \* "idle", "gate", "upload", "drain", "commit", "abort", "except", "done"
    firmware_len, total_blocks, block_num,
    polls,             \* iterations made by the polling loop the upload is in
    result,            \* "none", "success" (True), "failure" (False), "raised"
    \* observers of the upload
    startWrites, blockWrites, commits, aborts, abortFaults, progressCalls,
    lastByte, lastStatus, unknownSeen, drainReady, failedStage,
    cause,             \* what made the upload fail: "transport", "timeout", "callback" or a status
    callbackArgs,      \* the arguments of the progress callback's calls, in order
    writeLog,          \* the DFU register writes of the run, in order: register and outcome
    sentBlocks,        \* the blocks written so far: number, offset and length of the slice
    uploads,           \* firmware-update requests started so far
    gateStop,          \* first IDLE or error status a readiness gate read: <<status, blockWrites>>
    drainError,        \* TRUE once the drain has read an error status
    pending,           \* firmware-update requests received and not yet started
    outcomes,          \* <<class of cause, response>> of the failed requests so far
    \* the process
    exited,            \* TRUE once the signal handler has called sys.exit
    \* the device handle and the controller registers behind it
    fw_major,          \* major number of the firmware version read at construction
    regs,              \* bytes the controller holds in each threshold register
    lastSet,           \* per threshold register, the value last written: [k, divisor] or <<>>
    req,               \* the raw write or block upload a caller asks for
    call               \* the last call made on the handle and what it did

smVars == <<state, blackout_time, dcin_voltage, blackout_time_limit,
            blackout_voltage_limit, dry_run, sm_alive, now>>
smObs == <<wdWrites, sdWrites, poweroffs, lastReadOk, allReadsOk, lowSoFar,
           highSoFar, entered, dwell, wdValue, anyReadOk, lowSince, dipStart>>
dfuVars == <<dfu_pc, firmware_len, total_blocks, block_num, polls, result>>
dfuObs == <<startWrites, blockWrites, commits, aborts, abortFaults, progressCalls,
            lastByte, lastStatus, unknownSeen, drainReady, failedStage,
            cause, sentBlocks, uploads, outcomes, gateStop, drainError, pending,
            callbackArgs, writeLog>>
devVars == <<fw_major, regs, lastSet, req, call>>
hostVars == <<smVars, smObs, bus, dfuVars, dfuObs, exited>>
vars == <<hostVars, devVars>>

\* ------------------------------------------------------------ bus transport
Msg(task, reg, phase) == [task |-> task, reg |-> reg, phase |-> phase]

Window(s) == IF Len(s) <= BusWindow THEN s
             ELSE SubSeq(s, Len(s) - BusWindow + 1, Len(s))

\* One register operation: SMBus.i2c_rdwr(reg_msg, data_msg), a single
\* combined transfer of the address message and the data message.  A faulted
\* transfer (OSError) leaves no complete message on the bus.
i2c_rdwr_split(b, task, reg, dir, ok) ==
    IF ok THEN Window(b \o <<Msg(task, reg, "addr")>>) ELSE b

i2c_rdwr(b, task, reg, dir, ok) ==
    IF ok THEN Window(b \o <<Msg(task, reg, "addr"), Msg(task, reg, dir)>>)
    ELSE b

\* ------------------------------------------------------- power supervision
\* i2c_msg.write(addr, buf) of smbus2 builds bytes(buf), which raises
\* ValueError unless every element is in range(0, 256).
MsgWriteOk(buf) == \A i \in 1 .. Len(buf) : buf[i] \in 0 .. 255

\* What a call did: its outcome and the transactions it put on the bus.
Done(out, tx) == [out |-> out, tx |-> tx]

\* with SMBus(self.bus) as bus: bus.i2c_rdwr(reg_msg, write_msg)
Transact(reg, data, ok) ==
    Done(IF ok THEN "ok" ELSE "OSError", <<[reg |-> reg, data |-> data]>>)

i2c_write_byte(reg, val, ok) ==
    IF MsgWriteOk(<<val>>) THEN Transact(reg, <<val>>, ok) ELSE Done("ValueError", <<>>)

\* buf = [(val >> 8), val & 0xFF], for val >= 0
i2c_write_word(reg, val, ok) ==
    LET buf == <<val \div 256, val % 256>>
    IN IF MsgWriteOk(buf) THEN Transact(reg, buf, ok) ELSE Done("ValueError", <<>>)

\* set_watchdog_timeout(timeout): i2c_write_word(0x12, int(1000 * timeout))
set_watchdog_timeout_unscaled(timeout, ok) == i2c_write_word(REG_WATCHDOG, timeout, ok)

set_watchdog_timeout(timeout, ok) == i2c_write_word(REG_WATCHDOG, 1000 * timeout, ok)

Sat(n) == Min(n + 1, 2)

\* The if/elif chain of one loop iteration for the states that only decide.
DecideSwapped(s, volt, t, bt, limit, btl) ==
    CASE s = "OK" -> IF volt < limit THEN "BLACKOUT" ELSE "OK"
      [] s = "BLACKOUT" -> IF volt > limit THEN "OK"
                           ELSE IF bt - t > btl THEN "SHUTDOWN" ELSE "BLACKOUT"
      [] OTHER -> s

DecideInverted(s, volt, t, bt, limit, btl) ==
    CASE s = "OK" -> IF volt < limit THEN "BLACKOUT" ELSE "OK"
      [] s = "BLACKOUT" -> IF volt < limit THEN "OK"
                           ELSE IF t - bt > btl THEN "SHUTDOWN" ELSE "BLACKOUT"
      [] OTHER -> s

DecideOKInclusive(s, volt, t, bt, limit, btl) ==
    CASE s = "OK" -> IF volt <= limit THEN "BLACKOUT" ELSE "OK"
      [] s = "BLACKOUT" -> IF volt > limit THEN "OK"
                           ELSE IF t - bt > btl THEN "SHUTDOWN" ELSE "BLACKOUT"
      [] OTHER -> s

Decide(s, volt, t, bt, limit, btl) ==
    CASE s = "OK" -> IF volt < limit THEN "BLACKOUT" ELSE "OK"
      [] s = "BLACKOUT" -> IF volt > limit THEN "OK"
                           ELSE IF t - bt > btl THEN "SHUTDOWN" ELSE "BLACKOUT"
      [] OTHER -> s

\* try: dcin_voltage = halpi_device.dcin_voltage() except Exception: log
ReadVoltageZero(old, readOk, v) == IF readOk THEN v ELSE 0

ReadVoltage(old, readOk, v) == IF readOk THEN v ELSE old

\* if dry_run: log  else: request_shutdown(); check_call(["sudo", poweroff])
ShutdownActsAlways(dry) == TRUE

ShutdownActs(dry) == ~dry

\* The statements of START and SHUTDOWN are in no try block: an exception of
\* theirs leaves run_state_machine, and asyncio.gather hands it to async_main,
\* which ends the process.
EscapesNever(failed) == FALSE

Escapes(failed) == failed

\* request_shutdown() precedes check_call(["sudo", poweroff]): poweroff runs
\* only when the write has returned.
PoweroffRunsAnyway(writeOk) == TRUE

PoweroffRuns(writeOk) == writeOk

\* The state a SHUTDOWN cycle ends in once its actions have returned.
AfterShutdownStay == "SHUTDOWN"

AfterShutdown == "DEAD"

\* The state a DEAD cycle ends in.
AfterDeadRevive(volt, limit) == IF volt > limit THEN "OK" ELSE "DEAD"

AfterDead(volt, limit) == "DEAD"

\* The daemon is one asyncio event loop on one thread.  post_firmware_update
\* calls the synchronous upload_firmware_with_progress without awaiting, so
\* from its first statement to its return no other task is scheduled.
LoopFreeAlways == TRUE

LoopFree == dfu_pc \in {"idle", "done"}

InitHost ==
    /\ state = "START"
    /\ blackout_time = 0
    /\ dcin_voltage = 0
    /\ blackout_time_limit \in TimeLimits
    /\ blackout_voltage_limit = DEFAULT_BLACKOUT_VOLTAGE_LIMIT
    /\ dry_run \in BOOLEAN
    /\ sm_alive = TRUE
    /\ now = 0
    /\ bus = <<>>
    /\ wdWrites = 0
    /\ wdValue = <<>>
    /\ anyReadOk = FALSE
    /\ lowSince = TRUE
    /\ dipStart = 0
    /\ sdWrites = 0
    /\ poweroffs = 0
    /\ lastReadOk = TRUE
    /\ allReadsOk = TRUE
    /\ lowSoFar = TRUE
    /\ highSoFar = TRUE
    /\ entered = [s \in SMStates |-> IF s = "START" THEN 1 ELSE 0]
    /\ dwell = 0
    /\ dfu_pc = "idle"
    /\ firmware_len = 0
    /\ total_blocks = 0
    /\ block_num = 0
    /\ polls = 0
    /\ result = "none"
    /\ startWrites = 0
    /\ blockWrites = 0
    /\ commits = 0
    /\ aborts = 0
    /\ abortFaults = 0
    /\ progressCalls = 0
    /\ lastByte = -1
    /\ lastStatus = "NONE"
    /\ unknownSeen = FALSE
    /\ drainReady = FALSE
    /\ failedStage = "none"
    /\ cause = "none"
    /\ sentBlocks = <<>>
    /\ callbackArgs = <<>>
    /\ writeLog = <<>>
    /\ uploads = 0
    /\ outcomes = {}
    /\ gateStop = <<>>
    /\ drainError = FALSE
    /\ pending = 0
    /\ exited = FALSE

\* HALPIDevice.__init__: the firmware version is read and the analog dispatch
\* set; the threshold registers hold what the controller booted with.
InitDevice(major) ==
    /\ fw_major = major
    /\ regs = [r \in ThresholdRegs |-> <<0, 0>>]
    /\ lastSet = [r \in ThresholdRegs |-> <<>>]
    /\ req = [op |-> "none", reg |-> 0, num |-> 0, data |-> <<>>]
    /\ call = [op |-> "none", via |-> "none", reg |-> 0, k |-> 0, raw |-> 0,
               divisor |-> 0, out |-> "none", tx |-> <<>>]

Init == InitHost /\ InitDevice(2)

\* One iteration of the while True loop of run_state_machine, up to and
\* including its asyncio.sleep(1.0).
\*   readOk, v : outcome of the voltage read;   dt : seconds since last cycle
\*   wdOk, sdOk : outcome of the watchdog / shutdown-request write
\*   poOk : exit status of check_call(["sudo", poweroff])
Cycle(readOk, v, dt, wdOk, sdOk, poOk) ==
    LET volt == ReadVoltage(dcin_voltage, readOk, v)
        t == now + dt
        bus1 == i2c_rdwr(bus, "sm", REG_DCIN, "read", readOk)
        acts == state = "SHUTDOWN" /\ ShutdownActs(dry_run)
        arm == set_watchdog_timeout(WATCHDOG_TIMEOUT, wdOk)
        raised == Escapes(\/ state = "START" /\ arm.out # "ok"
                          \/ acts /\ (~sdOk \/ ~poOk))
        next == CASE state = "START" -> "OK"
                  [] state = "SHUTDOWN" -> AfterShutdown
                  [] state = "DEAD" -> AfterDead(volt, blackout_voltage_limit)
                  [] OTHER -> Decide(state, volt, t, blackout_time,
                                     blackout_voltage_limit, blackout_time_limit)
    IN
    /\ ~exited
    /\ sm_alive
    /\ LoopFree
    /\ t <= MaxTime
    /\ now' = t
    /\ dcin_voltage' = volt
    /\ lastReadOk' = readOk
    /\ allReadsOk' = (allReadsOk /\ readOk)
    /\ lowSoFar' = (lowSoFar /\ (state \in {"OK", "BLACKOUT"} => volt < blackout_voltage_limit))
    /\ highSoFar' = (highSoFar /\ (readOk => v >= blackout_voltage_limit))
    /\ sm_alive' = ~raised
    /\ state' = IF raised THEN state ELSE next
    /\ entered' = IF raised \/ next = state THEN entered
                  ELSE [entered EXCEPT ![next] = Sat(@)]
    /\ dwell' = IF raised \/ next = state THEN Sat(dwell) ELSE 0
    /\ blackout_time' = IF state = "OK" /\ next = "BLACKOUT" THEN t ELSE blackout_time
    /\ wdWrites' = IF state = "START" THEN Sat(wdWrites) ELSE wdWrites
    /\ wdValue' = IF state = "START" /\ arm.tx # <<>> THEN arm.tx[1].data ELSE wdValue
    /\ exited' = raised
    /\ sdWrites' = IF acts THEN Sat(sdWrites) ELSE sdWrites
    /\ poweroffs' = IF acts /\ PoweroffRuns(sdOk) THEN Sat(poweroffs) ELSE poweroffs
    /\ anyReadOk' = (anyReadOk \/ readOk)
    /\ lowSince' = CASE state = "OK" -> TRUE
                     [] state = "BLACKOUT" -> lowSince /\ volt < blackout_voltage_limit
                     [] OTHER -> lowSince
    /\ dipStart' = IF state = "OK" /\ state' = "BLACKOUT" THEN t ELSE dipStart
    /\ bus' = CASE state = "START" -> i2c_rdwr(bus1, "sm", REG_WATCHDOG, "write", wdOk)
                [] acts -> i2c_rdwr(bus1, "sm", REG_SHUTDOWN, "write", sdOk)
                [] OTHER -> bus1
    /\ UNCHANGED <<blackout_time_limit, blackout_voltage_limit, dry_run>>
    /\ UNCHANGED <<dfuVars, dfuObs, devVars>>

\* ---------------------------------------------------------------- DFU upload
DFUState == <<"IDLE", "PREPARING", "UPDATING", "QUEUE_FULL", "READY_TO_COMMIT",
              "CRC_ERROR", "DATA_LENGTH_ERROR", "WRITE_ERROR", "PROTOCOL_ERROR">>

\* get_dfu_status: DFUState(status_byte), ValueError -> PROTOCOL_ERROR
get_dfu_status_lenient(byte) ==
    IF byte \in 0 .. 8 THEN DFUState[byte + 1] ELSE "UPDATING"

get_dfu_status(byte) ==
    IF byte \in 0 .. 8 THEN DFUState[byte + 1] ELSE "PROTOCOL_ERROR"

\* The if/elif chain of one wait_for_dfu_ready poll:
\* "proceed" = return True, "fail" = return False, "wait" = sleep and poll again.
GateVerdictIdleWaits(status) ==
    CASE status \in {"UPDATING", "READY_TO_COMMIT"} -> "proceed"
      [] status \in {"CRC_ERROR", "PROTOCOL_ERROR", "WRITE_ERROR"} -> "fail"
      [] OTHER -> "wait"

GateVerdictQueueFullProceeds(status) ==
    CASE status \in {"UPDATING", "READY_TO_COMMIT", "QUEUE_FULL"} -> "proceed"
      [] status \in {"CRC_ERROR", "PROTOCOL_ERROR", "WRITE_ERROR"} -> "fail"
      [] status = "IDLE" -> "fail"
      [] OTHER -> "wait"

GateVerdict(status) ==
    CASE status \in {"UPDATING", "READY_TO_COMMIT"} -> "proceed"
      [] status \in {"CRC_ERROR", "PROTOCOL_ERROR", "WRITE_ERROR"} -> "fail"
      [] status \in {"PREPARING", "QUEUE_FULL"} -> "wait"
      [] status = "IDLE" -> "fail"
      [] OTHER -> "wait"

\* The if/elif of one drain poll: "commit" = break, "abort", "wait" = sleep(0.5).
DrainVerdictStatusOnly(status, written, total) ==
    CASE status = "READY_TO_COMMIT" -> "commit"
      [] status \in {"CRC_ERROR", "PROTOCOL_ERROR", "WRITE_ERROR"} -> "abort"
      [] OTHER -> "wait"

DrainVerdict(status, written, total) ==
    CASE status = "READY_TO_COMMIT" /\ written = total -> "commit"
      [] status \in {"CRC_ERROR", "PROTOCOL_ERROR", "WRITE_ERROR"} -> "abort"
      [] OTHER -> "wait"

\* if not self.wait_for_dfu_ready(): self.abort_firmware_update(); return False
GateExitIgnored(ready) == "upload"

GateExit(ready) == IF ready THEN "upload" ELSE "abort"

\* The statuses the controller reports for a failed transfer, and those a
\* transfer in progress is not expected to show.
ErrorStates == {"CRC_ERROR", "DATA_LENGTH_ERROR", "WRITE_ERROR", "PROTOCOL_ERROR"}
StopStates == ErrorStates \cup {"IDLE"}

\* total_blocks = (len(firmware_data) + FLASH_BLOCK_SIZE - 1) // FLASH_BLOCK_SIZE
TotalBlocksFloor(n) == n \div FLASH_BLOCK_SIZE

TotalBlocks(n) == (n + FLASH_BLOCK_SIZE - 1) \div FLASH_BLOCK_SIZE

\* except Exception: try: abort_firmware_update() except OSError: pass; return False
HandlerResultReraise(abortOk) == IF abortOk THEN "failure" ELSE "raised"

HandlerResult(abortOk) == "failure"

Cap(n) == Min(n + 1, 3)

\* firmware_data[offset : offset + FLASH_BLOCK_SIZE] of an image of n bytes:
\* the bytes from min(offset, n) up to min(offset + FLASH_BLOCK_SIZE, n).
Slice(n, num) ==
    LET offset == num * FLASH_BLOCK_SIZE
        first == Min(offset, n)
        last == Min(offset + FLASH_BLOCK_SIZE, n)
    IN [num |-> num, off |-> first, len |-> last - first]

\* The response of post_firmware_update for a result of the upload.
Response(res) ==
    IF res = "success" THEN <<204, "">> ELSE <<500, "Firmware upload failed">>

CauseClass(c) ==
    CASE c \in {"CRC_ERROR", "DATA_LENGTH_ERROR"} -> "image"
      [] c \in {"transport", "timeout"} -> "bus"
      [] OTHER -> "other"

\* progress_callback(block_num + 1, total_blocks)
ProgressArgsZeroBased(num, total) == <<num, total>>

ProgressArgs(num, total) == <<num + 1, total>>

\* commit_firmware_update() followed by return True; a fault of the write is
\* caught by the except Exception handler.
AfterCommitAborts(ok) == IF ok THEN "abort" ELSE "except"

AfterCommit(ok) == IF ok THEN "done" ELSE "except"

\* time.sleep() of a waiting poll: the time spent in the window grows.
SleptNoTime(p) == p

Slept(p) == p + 1

Written(reg, ok) == [reg |-> reg, ok |-> ok]

\* start_firmware_update(len(firmware_data)) and the block count
StartUpload(n, ok) ==
    /\ ~exited
    /\ LoopFree
    /\ pending >= 1
    /\ pending' = pending - 1
    /\ uploads' = uploads + 1
    /\ firmware_len' = n
    /\ total_blocks' = IF ok THEN TotalBlocks(n) ELSE 0
    /\ block_num' = 0
    /\ polls' = 0
    /\ startWrites' = 1
    /\ bus' = i2c_rdwr(bus, "dfu", REG_DFU_START, "write", ok)
    /\ dfu_pc' = IF ~ok THEN "except"
                 ELSE IF TotalBlocks(n) = 0 THEN "drain" ELSE "gate"
    /\ failedStage' = IF ok THEN "none" ELSE "start"
    /\ cause' = IF ok THEN "none" ELSE "transport"
    /\ result' = "none"
    /\ blockWrites' = 0 /\ commits' = 0 /\ aborts' = 0 /\ abortFaults' = 0
    /\ progressCalls' = 0 /\ lastByte' = -1 /\ lastStatus' = "NONE"
    /\ unknownSeen' = FALSE /\ drainReady' = FALSE /\ sentBlocks' = <<>>
    /\ callbackArgs' = <<>>
    /\ writeLog' = <<Written(REG_DFU_START, ok)>>
    /\ gateStop' = <<>> /\ drainError' = FALSE
    /\ UNCHANGED outcomes
    /\ UNCHANGED <<smVars, smObs, exited, devVars>>

\* One evaluation of the while condition of wait_for_dfu_ready and, when the
\* window is still open, one poll.  timeUp: time.time() - start_time >= 30.
GatePoll(timeUp, byte, ok) ==
    LET st == get_dfu_status(byte)
        verdict == GateVerdict(st)
    IN
    /\ ~exited
    /\ dfu_pc = "gate"
    /\ IF timeUp THEN polls >= 1 ELSE polls < MaxPolls
    /\ bus' = IF timeUp THEN bus ELSE i2c_rdwr(bus, "dfu", REG_DFU_STATUS, "read", ok)
    /\ dfu_pc' = CASE timeUp -> GateExit(FALSE)
                   [] ~ok -> "except"
                   [] verdict = "proceed" -> GateExit(TRUE)
                   [] verdict = "fail" -> GateExit(FALSE)
                   [] OTHER -> "gate"
    /\ gateStop' = IF gateStop = <<>> /\ ~timeUp /\ ok /\ st \in StopStates
                   THEN <<st, blockWrites>> ELSE gateStop
    /\ polls' = IF ~timeUp /\ ok /\ verdict = "wait" THEN Slept(polls) ELSE polls
    /\ UNCHANGED <<callbackArgs, writeLog>>
    /\ failedStage' = IF timeUp \/ ~ok \/ verdict = "fail" THEN "gate" ELSE failedStage
    /\ cause' = CASE timeUp -> "timeout" [] ~ok -> "transport"
                  [] verdict = "fail" -> st [] OTHER -> cause
    /\ lastByte' = IF ~timeUp /\ ok THEN byte ELSE lastByte
    /\ lastStatus' = IF ~timeUp /\ ok THEN st ELSE lastStatus
    /\ unknownSeen' = (unknownSeen \/ (~timeUp /\ ok /\ byte \notin 0 .. 8))
    /\ UNCHANGED <<drainError, pending, firmware_len, total_blocks, block_num, result, startWrites,
                   blockWrites, commits, aborts, abortFaults, progressCalls, drainReady,
                   sentBlocks, uploads, outcomes>>
    /\ UNCHANGED <<smVars, smObs, exited, devVars>>

\* upload_firmware_block(block_num, block_data), then the progress callback.
UploadBlock(ok, cbOk) ==
    /\ ~exited
    /\ dfu_pc = "upload"
    /\ bus' = i2c_rdwr(bus, "dfu", REG_DFU_UPLOAD, "write", ok)
    /\ blockWrites' = IF ok THEN blockWrites + 1 ELSE blockWrites
    /\ progressCalls' = IF ok THEN progressCalls + 1 ELSE progressCalls
    /\ block_num' = IF ok /\ cbOk THEN block_num + 1 ELSE block_num
    /\ dfu_pc' = CASE ~ok \/ ~cbOk -> "except"
                   [] block_num + 1 = total_blocks -> "drain"
                   [] OTHER -> "gate"
    /\ polls' = 0
    /\ failedStage' = CASE ~ok -> "block" [] ~cbOk -> "callback" [] OTHER -> failedStage
    /\ cause' = CASE ~ok -> "transport" [] ~cbOk -> "callback" [] OTHER -> cause
    /\ sentBlocks' = IF ok THEN Append(sentBlocks, Slice(firmware_len, block_num))
                     ELSE sentBlocks
    /\ callbackArgs' = IF ok THEN Append(callbackArgs, ProgressArgs(block_num, total_blocks))
                       ELSE callbackArgs
    /\ writeLog' = Append(writeLog, Written(REG_DFU_UPLOAD, ok))
    /\ UNCHANGED <<gateStop, drainError, pending, firmware_len, total_blocks, result, startWrites, commits, aborts,
                   abortFaults, lastByte, lastStatus, unknownSeen, drainReady,
                   uploads, outcomes>>
    /\ UNCHANGED <<smVars, smObs, exited, devVars>>

\* A firmware-update request reaches the socket: post_firmware_update will
\* run for it once the event loop gets to it.
Arrive ==
    /\ ~exited
    /\ uploads + pending < MaxUploads
    /\ pending' = pending + 1
    /\ UNCHANGED <<callbackArgs, writeLog>>
    /\ UNCHANGED <<smVars, smObs, bus, dfuVars, exited, devVars>>
    /\ UNCHANGED <<startWrites, blockWrites, commits, aborts, abortFaults, progressCalls,
                   lastByte, lastStatus, unknownSeen, drainReady, failedStage,
                   cause, sentBlocks, uploads, outcomes, gateStop, drainError>>

\* One evaluation of the while condition of the drain loop and, when the
\* window is still open, one poll of the status and of the blocks-written counter.
DrainPoll(timeUp, byte, stOk, written, bwOk) ==
    LET st == get_dfu_status(byte)
        verdict == DrainVerdict(st, written, total_blocks)
        polled == ~timeUp /\ stOk /\ bwOk
        bus1 == i2c_rdwr(bus, "dfu", REG_DFU_STATUS, "read", stOk)
    IN
    /\ ~exited
    /\ dfu_pc = "drain"
    /\ IF timeUp THEN polls >= 1 ELSE polls < MaxPolls
    /\ bus' = CASE timeUp -> bus
                [] ~stOk -> bus1
                [] OTHER -> i2c_rdwr(bus1, "dfu", REG_DFU_BLOCKS, "read", bwOk)
    /\ dfu_pc' = CASE timeUp -> "abort"
                   [] ~stOk \/ ~bwOk -> "except"
                   [] verdict = "commit" -> "commit"
                   [] verdict = "abort" -> "abort"
                   [] OTHER -> "drain"
    /\ polls' = IF polled /\ verdict = "wait" THEN Slept(polls) ELSE polls
    /\ UNCHANGED <<callbackArgs, writeLog>>
    /\ failedStage' = IF ~polled \/ verdict = "abort" THEN "drain" ELSE failedStage
    /\ cause' = CASE timeUp -> "timeout" [] ~stOk \/ ~bwOk -> "transport"
                  [] verdict = "abort" -> st [] OTHER -> cause
    /\ lastByte' = IF ~timeUp /\ stOk THEN byte ELSE lastByte
    /\ lastStatus' = IF ~timeUp /\ stOk THEN st ELSE lastStatus
    /\ unknownSeen' = (unknownSeen \/ (~timeUp /\ stOk /\ byte \notin 0 .. 8))
    /\ drainError' = (drainError \/ (~timeUp /\ stOk /\ st \in ErrorStates))
    /\ drainReady' = (drainReady \/ (polled /\ byte = 4 /\ written = total_blocks))
    /\ UNCHANGED <<gateStop, pending, firmware_len, total_blocks, block_num, result, startWrites,
                   blockWrites, commits, aborts, abortFaults, progressCalls,
                   sentBlocks, uploads, outcomes>>
    /\ UNCHANGED <<smVars, smObs, exited, devVars>>

\* commit_firmware_update(); return True
Commit(ok) ==
    /\ ~exited
    /\ dfu_pc = "commit"
    /\ bus' = i2c_rdwr(bus, "dfu", REG_DFU_COMMIT, "write", ok)
    /\ commits' = Cap(commits)
    /\ dfu_pc' = AfterCommit(ok)
    /\ writeLog' = Append(writeLog, Written(REG_DFU_COMMIT, ok))
    /\ UNCHANGED callbackArgs
    /\ result' = IF ok THEN "success" ELSE result
    /\ failedStage' = IF ok THEN failedStage ELSE "commit"
    /\ cause' = IF ok THEN cause ELSE "transport"
    /\ UNCHANGED <<gateStop, drainError, pending, firmware_len, total_blocks, block_num, polls, startWrites,
                   blockWrites, aborts, abortFaults, progressCalls, lastByte,
                   lastStatus, unknownSeen, drainReady, sentBlocks, uploads, outcomes>>
    /\ UNCHANGED <<smVars, smObs, exited, devVars>>

\* self.abort_firmware_update(); return False   (inside the try block)
InlineAbort(ok) ==
    /\ ~exited
    /\ dfu_pc = "abort"
    /\ bus' = i2c_rdwr(bus, "dfu", REG_DFU_ABORT, "write", ok)
    /\ aborts' = Cap(aborts)
    /\ writeLog' = Append(writeLog, Written(REG_DFU_ABORT, ok))
    /\ UNCHANGED callbackArgs
    /\ abortFaults' = IF ok THEN abortFaults ELSE Cap(abortFaults)
    /\ dfu_pc' = IF ok THEN "done" ELSE "except"
    /\ result' = IF ok THEN "failure" ELSE result
    /\ outcomes' = IF ok THEN outcomes \cup {<<CauseClass(cause), Response("failure")>>}
                   ELSE outcomes
    /\ UNCHANGED <<gateStop, drainError, pending, firmware_len, total_blocks, block_num, polls, startWrites,
                   blockWrites, commits, progressCalls, lastByte, lastStatus,
                   unknownSeen, drainReady, failedStage, cause, sentBlocks, uploads>>
    /\ UNCHANGED <<smVars, smObs, exited, devVars>>

\* The except Exception handler of upload_firmware_with_progress.
ExceptAbort(ok) ==
    /\ ~exited
    /\ dfu_pc = "except"
    /\ bus' = i2c_rdwr(bus, "dfu", REG_DFU_ABORT, "write", ok)
    /\ aborts' = Cap(aborts)
    /\ writeLog' = Append(writeLog, Written(REG_DFU_ABORT, ok))
    /\ UNCHANGED callbackArgs
    /\ abortFaults' = IF ok THEN abortFaults ELSE Cap(abortFaults)
    /\ dfu_pc' = "done"
    /\ result' = HandlerResult(ok)
    /\ outcomes' = outcomes \cup {<<CauseClass(cause), Response(HandlerResult(ok))>>}
    /\ UNCHANGED <<gateStop, drainError, pending, firmware_len, total_blocks, block_num, polls, startWrites,
                   blockWrites, commits, progressCalls, lastByte, lastStatus,
                   unknownSeen, drainReady, failedStage, cause, sentBlocks, uploads>>
    /\ UNCHANGED <<smVars, smObs, exited, devVars>>

\* A request handler of the API reading a register (GET /values/V_in).
ApiAccess(ok) ==
    /\ ~exited
    /\ LoopFree
    /\ bus' = i2c_rdwr(bus, "api", REG_DCIN, "read", ok)
    /\ UNCHANGED <<smVars, smObs, dfuVars, dfuObs, exited, devVars>>

\* ---------------------------------------------------------------------
\* The device handle: register encodings and the DFU block frame.

\* struct.pack(">H", n) and struct.pack(">I", <<hi, lo>>): big-endian bytes.
\* A 32-bit value is kept as its two 16-bit halves <<hi, lo>>.
BE16(n) == <<n \div 256, n % 256>>
BE32(w) == BE16(w[1]) \o BE16(w[2])

RECURSIVE Xor(_, _)
Xor(a, b) ==
    IF a = 0 THEN b
    ELSE IF b = 0 THEN a
    ELSE ((a + b) % 2) + 2 * Xor(a \div 2, b \div 2)

\* binascii.crc32: the reflected CRC-32 of zlib, polynomial 0xEDB88320,
\* initial value and final xor 0xFFFFFFFF.
CrcPolyHi == 60856    \* 0xEDB8
CrcPolyLo == 33568    \* 0x8320

CrcShift(c) ==
    LET hi == c[1] \div 2
        lo == (c[2] \div 2) + (c[1] % 2) * 32768
    IN IF c[2] % 2 = 1 THEN <<Xor(hi, CrcPolyHi), Xor(lo, CrcPolyLo)>> ELSE <<hi, lo>>

CrcByte(c, byte) ==
    CrcShift(CrcShift(CrcShift(CrcShift(CrcShift(CrcShift(CrcShift(CrcShift(
        <<c[1], Xor(c[2], byte)>>))))))))

\* The bytes first .. last of data folded into c, halving the range so that the
\* depth of the evaluation stays logarithmic in the length (the test on left
\* has the left half evaluated before the right half starts).
RECURSIVE CrcFold(_, _, _, _)
CrcFold(c, data, first, last) ==
    IF first > last THEN c
    ELSE IF first = last THEN CrcByte(c, data[first])
    ELSE LET mid == (first + last) \div 2
             left == CrcFold(c, data, first, mid)
         IN IF left[1] >= 0 THEN CrcFold(left, data, mid + 1, last) ELSE left

crc32(data) ==
    LET c == CrcFold(<<65535, 65535>>, data, 1, Len(data))
    IN <<Xor(c[1], 65535), Xor(c[2], 65535)>>

i2c_write_bytes(reg, vals, ok) ==
    IF ~(\A i \in 1 .. Len(vals) : 0 <= vals[i] /\ vals[i] < 256)
    THEN Done("ValueError", <<>>)
    ELSE IF MsgWriteOk(vals) THEN Transact(reg, vals, ok) ELSE Done("ValueError", <<>>)

\* payload = struct.pack(">HH", block_num, block_length) + data
\* message = struct.pack(">I", crc32(payload)) + payload
FrameCrcOfData(num, data) ==
    BE32(crc32(data)) \o BE16(num) \o BE16(Len(data)) \o data

Frame(num, data) ==
    LET payload == BE16(num) \o BE16(Len(data)) \o data
    IN BE32(crc32(payload)) \o payload

upload_firmware_block_unchecked(num, data, ok) ==
    i2c_write_bytes(REG_DFU_UPLOAD, Frame(num, data), ok)

upload_firmware_block(num, data, ok) ==
    IF Len(data) > FLASH_BLOCK_SIZE THEN Done("ValueError", <<>>)
    ELSE i2c_write_bytes(REG_DFU_UPLOAD, Frame(num, data), ok)

\* The calls a caller makes on the raw interface.
Zeros(n) == [i \in 1 .. n |-> 0]
DataBytes == {0, 7, 255}
RECURSIVE SeqsUpTo(_)
SeqsUpTo(n) ==
    IF n = 0 THEN {<<>>}
    ELSE LET shorter == SeqsUpTo(n - 1)
         IN shorter \cup {Append(q, b) : q \in {x \in shorter : Len(x) = n - 1}, b \in DataBytes}
BlockData == SeqsUpTo(MaxData) \cup {Zeros(10), Zeros(FLASH_BLOCK_SIZE), Zeros(FLASH_BLOCK_SIZE + 1)}
BlockNums == (0 .. MaxBlockNum) \cup {258, 65535}
RawValues == {-1, 0, 1, 255, 256}
RawSeqs == {<<>>, <<0>>, <<255, 0>>, <<0, 256>>, <<-1>>, <<1, 2, 3>>, <<256, -1>>}

Requests ==
    {[op |-> "i2c_write_byte", reg |-> REG_LED, num |-> 0, data |-> <<v>>] : v \in RawValues}
    \cup {[op |-> "i2c_write_bytes", reg |-> REG_DFU_START, num |-> 0, data |-> q] : q \in RawSeqs}
    \cup {[op |-> "upload_firmware_block", reg |-> REG_DFU_UPLOAD, num |-> n, data |-> q] :
            n \in BlockNums, q \in BlockData}

Served(w) ==
    /\ call.op = "none"
    /\ call' = [op |-> req.op, via |-> "raw", reg |-> req.reg, k |-> 0, raw |-> 0,
                divisor |-> 0, out |-> w.out, tx |-> w.tx]
    /\ UNCHANGED <<hostVars, fw_major, regs, lastSet, req>>

I2cWriteByte(ok) ==
    /\ req.op = "i2c_write_byte"
    /\ Served(i2c_write_byte(req.reg, req.data[1], ok))

I2cWriteBytes(ok) ==
    /\ req.op = "i2c_write_bytes"
    /\ Served(i2c_write_bytes(req.reg, req.data, ok))

UploadFirmwareBlock(ok) ==
    /\ req.op = "upload_firmware_block"
    /\ Served(upload_firmware_block(req.num, req.data, ok))

NextRaw ==
    \/ \E ok \in BOOLEAN : I2cWriteByte(ok)
    \/ \E ok \in BOOLEAN : I2cWriteBytes(ok)
    \/ \E ok \in BOOLEAN : UploadFirmwareBlock(ok)

\* The analog encodings. A value is k / Grain of the scale of its register.
FirmwareMajors == 1 .. MaxMajor

\* _set_firmware_version: read_analog and write_analog are bound to the word
\* functions when the version string starts with "2."; otherwise the handle
\* has no such attribute.
Dispatch(major) == IF major = 2 THEN "word" ELSE "none"

\* The encoding a call goes through: the channel accessors name
\* read_analog_word and write_analog_word themselves.
EncodingOf(via, major) ==
    CASE via = "accessor" -> "word"
      [] via = "dispatch" -> Dispatch(major)
      [] via = "byte" -> "byte"
      [] via = "word" -> "word"

Divisor(enc) == CASE enc = "word" -> 65536 [] enc = "byte" -> 256 [] OTHER -> 0

\* int(divisor * val / scale) for val = scale * k / Grain
Encode(divisor, k) == (divisor * k) \div Grain

\* (byte_vals[0] << 8) | byte_vals[1], or the single byte of a byte register
Decode(enc, bytes) == IF enc = "word" THEN bytes[1] * 256 + bytes[2] ELSE bytes[1]

Vias == {"accessor", "dispatch", "byte", "word"}

\* set_power_on_threshold, set_power_off_threshold (via = "accessor"),
\* write_analog (via = "dispatch"), write_analog_byte, write_analog_word.
AnalogWrite(via, reg, k, ok) ==
    LET enc == EncodingOf(via, fw_major)
        raw == Encode(Divisor(enc), k)
        w == CASE enc = "none" -> Done("AttributeError", <<>>)
               [] enc = "word" -> i2c_write_word(reg, raw, ok)
               [] enc = "byte" -> i2c_write_byte(reg, raw, ok)
    IN
    /\ req.op = "none"
    /\ call' = [op |-> "write", via |-> via, reg |-> reg, k |-> k, raw |-> raw,
                divisor |-> Divisor(enc), out |-> w.out, tx |-> w.tx]
    /\ regs' = IF w.out = "ok" THEN [regs EXCEPT ![reg] = w.tx[1].data] ELSE regs
    /\ lastSet' = IF w.out = "ok" THEN [lastSet EXCEPT ![reg] = <<k, Divisor(enc)>>]
                  ELSE lastSet
    /\ UNCHANGED <<hostVars, fw_major, req>>

\* power_on_threshold, power_off_threshold (via = "accessor"), read_analog
\* (via = "dispatch"), read_analog_byte, read_analog_word of a threshold
\* register that holds as many bytes as the call reads.
AnalogRead(via, reg, ok) ==
    LET enc == EncodingOf(via, fw_major) IN
    /\ req.op = "none"
    /\ enc # "none" => Len(regs[reg]) = (IF enc = "word" THEN 2 ELSE 1)
    /\ call' = CASE enc = "none" ->
                     [op |-> "read", via |-> via, reg |-> reg, k |-> 0, raw |-> 0,
                      divisor |-> 0, out |-> "AttributeError", tx |-> <<>>]
                 [] OTHER ->
                     [op |-> "read", via |-> via, reg |-> reg, k |-> 0,
                      raw |-> IF ok THEN Decode(enc, regs[reg]) ELSE 0,
                      divisor |-> Divisor(enc),
                      out |-> IF ok THEN "ok" ELSE "OSError",
                      tx |-> <<[reg |-> reg, data |-> <<>>]>>]
    /\ UNCHANGED <<hostVars, fw_major, regs, lastSet, req>>

\* dcin_voltage, supercap_voltage, input_current, temperature: the controller
\* answers with the two bytes hi, lo of its measurement.
SampleBytes == {0, 128, 255}

Measure(reg, hi, lo, ok) ==
    /\ req.op = "none"
    /\ call' = [op |-> "read", via |-> "accessor", reg |-> reg, k |-> 0,
                raw |-> IF ok THEN Decode("word", <<hi, lo>>) ELSE 0,
                divisor |-> Divisor("word"),
                out |-> IF ok THEN "ok" ELSE "OSError",
                tx |-> <<[reg |-> reg, data |-> <<>>]>>]
    /\ UNCHANGED <<hostVars, fw_major, regs, lastSet, req>>

NextAnalog ==
    \/ \E via \in Vias, reg \in ThresholdRegs, k \in 0 .. Grain, ok \in BOOLEAN :
            AnalogWrite(via, reg, k, ok)
    \/ \E via \in Vias, reg \in ThresholdRegs, ok \in BOOLEAN : AnalogRead(via, reg, ok)
    \/ \E reg \in MeasureRegs, ok \in BOOLEAN :
       \E hi \in (IF ok THEN SampleBytes ELSE {0}), lo \in (IF ok THEN SampleBytes ELSE {0}) :
            Measure(reg, hi, lo, ok)

\* The SIGINT/SIGTERM handler `cleanup`: set_watchdog_timeout(0), sys.exit(0).
\* It runs on the main thread between two bytecodes of whatever is executing.
\* SystemExit is not an Exception, so no `except Exception` intercepts it; an
\* OSError of the watchdog write surfaces in the interrupted code instead.
InTry == dfu_pc \in {"gate", "upload", "drain", "commit", "abort"}

Terminate(ok) ==
    /\ ~exited
    /\ bus' = i2c_rdwr(bus, "signal", REG_WATCHDOG, "write", ok)
    /\ exited' = (ok \/ ~InTry)
    /\ dfu_pc' = IF ~ok /\ InTry THEN "except" ELSE dfu_pc
    /\ cause' = IF ~ok /\ InTry THEN "transport" ELSE cause
    /\ failedStage' = IF ~ok /\ InTry THEN "signal" ELSE failedStage
    /\ UNCHANGED <<callbackArgs, writeLog>>
    /\ UNCHANGED <<gateStop, drainError, pending, firmware_len, total_blocks, block_num, polls, result, startWrites,
                   blockWrites, commits, aborts, abortFaults, progressCalls, lastByte,
                   lastStatus, unknownSeen, drainReady, sentBlocks, uploads, outcomes>>
    /\ UNCHANGED <<smVars, smObs, devVars>>

\* Only the inputs a poll consumes are enumerated: no byte is read once the
\* window is over or the read has failed.
NextDFU ==
    \/ uploads + pending < 1 /\ Arrive
    \/ \E n \in ImageSizes, ok \in BOOLEAN : dfu_pc = "idle" /\ StartUpload(n, ok)
    \/ \E timeUp \in BOOLEAN :
       \E ok \in (IF timeUp THEN {TRUE} ELSE BOOLEAN) :
       \E byte \in (IF timeUp \/ ~ok THEN {0} ELSE StatusBytes) :
            GatePoll(timeUp, byte, ok)
    \/ \E ok \in BOOLEAN : \E cbOk \in (IF ok THEN BOOLEAN ELSE {TRUE}) : UploadBlock(ok, cbOk)
    \/ \E timeUp \in BOOLEAN :
       \E stOk \in (IF timeUp THEN {TRUE} ELSE BOOLEAN) :
       \E byte \in (IF timeUp \/ ~stOk THEN {0} ELSE StatusBytes) :
       \E bwOk \in (IF timeUp \/ ~stOk THEN {TRUE} ELSE BOOLEAN) :
       \E written \in (IF timeUp \/ ~stOk \/ ~bwOk THEN {0} ELSE BlocksWritten) :
            DrainPoll(timeUp, byte, stOk, written, bwOk)
    \/ \E ok \in BOOLEAN : Commit(ok)
    \/ \E ok \in BOOLEAN : InlineAbort(ok)
    \/ \E ok \in BOOLEAN : ExceptAbort(ok)


\* Only the inputs the cycle consumes are enumerated: the value read when the
\* read succeeds, the write outcome in START and SHUTDOWN, the exit status
\* of poweroff in SHUTDOWN.
Next ==
    \E readOk \in BOOLEAN, dt \in 1 .. MaxStep :
    \E v \in (IF readOk THEN Voltages ELSE {DEFAULT_BLACKOUT_VOLTAGE_LIMIT}) :
    \E wdOk \in (IF state = "START" THEN BOOLEAN ELSE {TRUE}) :
    \E sdOk \in (IF state = "SHUTDOWN" THEN BOOLEAN ELSE {TRUE}) :
    \E poOk \in (IF state = "SHUTDOWN" THEN BOOLEAN ELSE {TRUE}) :
        Cycle(readOk, v, dt, wdOk, sdOk, poOk)

Spec == Init /\ [][Next]_vars

\* The loop is `while True` around a one-second sleep: as long as no exception
\* has left it, the event loop runs its next iteration.
FairSpec == Init /\ [][Next]_vars /\ WF_vars(Next)

\* One upload, with the controller and the bus as the environment.
SpecDFU == Init /\ [][NextDFU]_vars

\* The upload is straight-line synchronous code: once called it runs its next
\* statement, each bus transaction returning with a value or a fault.
\* The inputs are those of NextDFU with images of up to TermBlocks blocks.
NextTerm ==
    \/ uploads + pending < 1 /\ Arrive
    \/ \E n \in TermSizes, ok \in BOOLEAN : dfu_pc = "idle" /\ StartUpload(n, ok)
    \/ \E timeUp \in BOOLEAN :
       \E ok \in (IF timeUp THEN {TRUE} ELSE BOOLEAN) :
       \E byte \in (IF timeUp \/ ~ok THEN {0} ELSE StatusBytes) :
            GatePoll(timeUp, byte, ok)
    \/ \E ok \in BOOLEAN : \E cbOk \in (IF ok THEN BOOLEAN ELSE {TRUE}) : UploadBlock(ok, cbOk)
    \/ \E timeUp \in BOOLEAN :
       \E stOk \in (IF timeUp THEN {TRUE} ELSE BOOLEAN) :
       \E byte \in (IF timeUp \/ ~stOk THEN {0} ELSE StatusBytes) :
       \E bwOk \in (IF timeUp \/ ~stOk THEN {TRUE} ELSE BOOLEAN) :
       \E written \in (IF timeUp \/ ~stOk \/ ~bwOk THEN {0} ELSE 0 .. TermBlocks) :
            DrainPoll(timeUp, byte, stOk, written, bwOk)
    \/ \E ok \in BOOLEAN : Commit(ok)
    \/ \E ok \in BOOLEAN : InlineAbort(ok)
    \/ \E ok \in BOOLEAN : ExceptAbort(ok)

FairSpecDFU == Init /\ [][NextTerm]_vars /\ WF_vars(NextTerm)

\* The event loop: supervision, an upload request and API reads on one device.
\* The inputs are a selection of those of Next and NextDFU: low and high
\* voltage, cycles MaxStep seconds apart whose writes succeed, one-block
\* images, the status bytes that make the gate and the drain wait, proceed
\* and fail.
InitConc == Init /\ ~dry_run /\ blackout_time_limit = 1

ConcStatusBytes == {1, 2, 4, 255}

NextConc ==
    \/ \E readOk \in BOOLEAN, v \in {DEFAULT_BLACKOUT_VOLTAGE_LIMIT - 1, DEFAULT_BLACKOUT_VOLTAGE_LIMIT + 1} :
            Cycle(readOk, v, MaxStep, TRUE, TRUE, TRUE)
    \/ uploads + pending < 1 /\ Arrive
    \/ \E ok \in BOOLEAN : dfu_pc = "idle" /\ StartUpload(1, ok)
    \/ \E timeUp \in BOOLEAN :
       \E ok \in (IF timeUp THEN {TRUE} ELSE BOOLEAN) :
       \E byte \in (IF timeUp \/ ~ok THEN {0} ELSE ConcStatusBytes) :
            GatePoll(timeUp, byte, ok)
    \/ \E ok \in BOOLEAN : UploadBlock(ok, TRUE)
    \/ \E timeUp \in BOOLEAN :
       \E ok \in (IF timeUp THEN {TRUE} ELSE BOOLEAN) :
       \E byte \in (IF timeUp \/ ~ok THEN {0} ELSE ConcStatusBytes) :
            DrainPoll(timeUp, byte, ok, 1, ok)
    \/ \E ok \in BOOLEAN : Commit(ok)
    \/ \E ok \in BOOLEAN : InlineAbort(ok)
    \/ \E ok \in BOOLEAN : ExceptAbort(ok)
    \/ \E ok \in BOOLEAN : ApiAccess(ok)
    \/ \E ok \in BOOLEAN : Terminate(ok)

SpecConc == InitConc /\ [][NextConc]_vars

\* One firmware-update request after another, of one-block images, with the
\* status bytes that make the gate and the drain wait, proceed and fail in
\* each of the ways the polls tell apart.
RepeatStatusBytes == {1, 2, 4, 5, 6, 255}

NextRepeat ==
    \/ Arrive
    \/ \E ok \in BOOLEAN : StartUpload(1, ok)
    \/ \E timeUp \in BOOLEAN :
       \E ok \in (IF timeUp THEN {TRUE} ELSE BOOLEAN) :
       \E byte \in (IF timeUp \/ ~ok THEN {0} ELSE RepeatStatusBytes) :
            GatePoll(timeUp, byte, ok)
    \/ \E ok \in BOOLEAN : \E cbOk \in (IF ok THEN BOOLEAN ELSE {TRUE}) : UploadBlock(ok, cbOk)
    \/ \E timeUp \in BOOLEAN :
       \E ok \in (IF timeUp THEN {TRUE} ELSE BOOLEAN) :
       \E byte \in (IF timeUp \/ ~ok THEN {0} ELSE RepeatStatusBytes) :
            DrainPoll(timeUp, byte, ok, 1, ok)
    \/ \E ok \in BOOLEAN : Commit(ok)
    \/ \E ok \in BOOLEAN : InlineAbort(ok)
    \/ \E ok \in BOOLEAN : ExceptAbort(ok)

SpecRepeat == InitConc /\ [][NextRepeat]_vars

\* One call on the raw interface of the handle, for every request of Requests.
InitRaw ==
    /\ InitHost /\ ~dry_run /\ blackout_time_limit = 1
    /\ fw_major = 2
    /\ regs = [r \in ThresholdRegs |-> <<0, 0>>]
    /\ lastSet = [r \in ThresholdRegs |-> <<>>]
    /\ req \in Requests
    /\ call = [op |-> "none", via |-> "none", reg |-> 0, k |-> 0, raw |-> 0,
               divisor |-> 0, out |-> "none", tx |-> <<>>]

SpecRaw == InitRaw /\ [][NextRaw]_vars

\* Calls on the analog interface of a handle of any firmware version.
InitAnalog ==
    /\ InitHost /\ ~dry_run /\ blackout_time_limit = 1
    /\ \E major \in FirmwareMajors : InitDevice(major)

SpecAnalog == InitAnalog /\ [][NextAnalog]_vars

\* ------------------------------------------------------------------ claims
CycleFired == now' # now
ShutdownActions == <<sdWrites, poweroffs>>

\* C1: one run of the supervision loop writes the shutdown-request register
\* (0x30) at most once and invokes the poweroff command at most once.
C1_ShutdownAtMostOnce == sdWrites <= 1 /\ poweroffs <= 1

C1_Witness == state = "DEAD" /\ sdWrites = 1 /\ poweroffs = 1 /\ dwell >= 1

\* C2: DEAD is absorbing: a cycle that begins in DEAD ends in DEAD and
\* performs no shutdown-request write and no poweroff invocation, whatever
\* the voltage read returns.
C2_DeadAbsorbing ==
    [][state = "DEAD" => state' = "DEAD" /\ ShutdownActions' = ShutdownActions]_vars

C2_Witness ==
    state = "DEAD" /\ dwell >= 1 /\ lastReadOk /\ dcin_voltage > blackout_voltage_limit

\* C3 as stated: with every read succeeding and the voltage staying below the
\* limit, BLACKOUT, SHUTDOWN and DEAD are each entered exactly once by the
\* time the machine is DEAD, and the shutdown action was invoked exactly once.
Sustained == allReadsOk /\ lowSoFar

ChainStep(a, b) ==
    \/ a = b
    \/ <<a, b>> \in {<<"START", "OK">>, <<"OK", "BLACKOUT">>,
                     <<"BLACKOUT", "SHUTDOWN">>, <<"SHUTDOWN", "DEAD">>}

C4_RecoverBeforeLimit ==
    [][(/\ state = "BLACKOUT" /\ CycleFired /\ lastReadOk'
        /\ dcin_voltage' > blackout_voltage_limit
        /\ now' - blackout_time <= blackout_time_limit)
       => state' = "OK" /\ ShutdownActions' = ShutdownActions]_vars

C4_Witness ==
    /\ state = "OK" /\ dwell = 0 /\ entered["BLACKOUT"] >= 1 /\ lastReadOk
    /\ dcin_voltage > blackout_voltage_limit
    /\ now - blackout_time <= blackout_time_limit
    /\ entered["SHUTDOWN"] = 0

\* C5: if every read succeeds with a value not below the limit, the machine
\* is OK after its START cycle and stays OK: BLACKOUT, SHUTDOWN and DEAD are
\* never entered and no shutdown action is invoked.
C5_StaysOK ==
    (allReadsOk /\ highSoFar) =>
        /\ state \in {"START", "OK"}
        /\ (state = "START" => now = 0 \/ ~sm_alive)
        /\ entered["BLACKOUT"] = 0 /\ entered["SHUTDOWN"] = 0 /\ entered["DEAD"] = 0
        /\ sdWrites = 0 /\ poweroffs = 0

C5_Witness ==
    /\ allReadsOk /\ highSoFar /\ state = "OK" /\ dwell >= 2
    /\ dcin_voltage = blackout_voltage_limit

\* C6: a cycle whose voltage read fails keeps the previously read voltage,
\* does not end the loop because of the failure, and ends in the state a
\* successful read of that previous value would have led to.
C6_ReadFailureRetains ==
    [][(CycleFired /\ ~lastReadOk') =>
        /\ dcin_voltage' = dcin_voltage
        /\ (state \in {"OK", "BLACKOUT", "DEAD"} => sm_alive')
        /\ (sm_alive' =>
              state' = CASE state = "START" -> "OK"
                         [] state = "SHUTDOWN" -> "DEAD"
                         [] state = "DEAD" -> "DEAD"
                         [] state = "OK" ->
                              IF dcin_voltage < blackout_voltage_limit
                              THEN "BLACKOUT" ELSE "OK"
                         [] OTHER ->
                              IF dcin_voltage > blackout_voltage_limit THEN "OK"
                              ELSE IF now' - blackout_time > blackout_time_limit
                                   THEN "SHUTDOWN" ELSE "BLACKOUT")]_vars

C6_Witness ==
    /\ state = "BLACKOUT" /\ dwell = 0 /\ ~lastReadOk /\ sm_alive
    /\ dcin_voltage = DEFAULT_BLACKOUT_VOLTAGE_LIMIT - 1

\* C7: the upload reports success only if the commit write (0x44) was issued,
\* and the commit write is issued only after every block of the image was
\* written and a drain poll observed READY_TO_COMMIT together with a
\* blocks-written counter equal to the block count.
C7_SuccessOnlyAfterCommit ==
    /\ (result = "success" => commits = 1 /\ dfu_pc = "done")
    /\ (commits >= 1 =>
          /\ drainReady
          /\ blockWrites = total_blocks
          /\ blockWrites * FLASH_BLOCK_SIZE >= firmware_len)

C7_Witness ==
    result = "success" /\ total_blocks >= 2 /\ blockWrites = total_blocks /\ drainReady

\* C8: when any stage of the transfer fails, an abort write (0x45) is attempted
\* before the call returns, and the call returns failure, never raising, even
\* when the abort write itself faults.
C8_FailureAborts ==
    /\ result \in {"none", "success", "failure"}
    /\ (dfu_pc = "done" => result # "none")
    /\ (dfu_pc = "done" /\ (failedStage # "none" \/ result # "success") =>
            result = "failure" /\ aborts >= 1)

C8_Witness ==
    dfu_pc = "done" /\ result = "failure" /\ failedStage = "commit" /\ abortFaults >= 1

\* C9: a status byte outside 0..8 is decoded as PROTOCOL_ERROR, and once the
\* readiness gate or the drain has observed one, no block is uploaded and no
\* commit is written any more: the transfer aborts and reports failure.
C9_UnknownStatusAborts ==
    /\ (lastByte # -1 /\ lastByte \notin 0 .. 8 => lastStatus = "PROTOCOL_ERROR")
    /\ (unknownSeen =>
          /\ dfu_pc \in {"abort", "except", "done"}
          /\ commits = 0
          /\ result # "success"
          /\ (dfu_pc = "done" => result = "failure" /\ aborts >= 1))

C9_Witness ==
    /\ unknownSeen /\ lastByte = 255 /\ dfu_pc = "done" /\ result = "failure"
    /\ failedStage = "gate" /\ blockWrites >= 1

\* C10: on the bus every address message is directly followed by the data
\* message of the same register operation of the same task; no message of
\* another operation lies between the two.
SameOp(a, b) == a.task = b.task /\ a.reg = b.reg

C10_NoInterleaving ==
    \A i \in 1 .. Len(bus) :
        /\ (bus[i].phase = "addr" =>
                i < Len(bus) /\ bus[i + 1].phase # "addr" /\ SameOp(bus[i], bus[i + 1]))
        /\ (bus[i].phase # "addr" /\ i > 1 =>
                bus[i - 1].phase = "addr" /\ SameOp(bus[i - 1], bus[i]))

C10_Witness ==
    /\ dfu_pc = "gate"
    /\ \E i \in 1 .. Len(bus) - 2 :
        /\ bus[i].task = "sm" /\ bus[i].phase = "addr" /\ bus[i].reg = REG_DCIN
        /\ bus[i + 2].task = "dfu" /\ bus[i + 2].phase = "addr"

\* C13 as stated: an exception raised by the progress callback causes no abort
\* write and does not make the transfer fail.
C13_CallbackFailureHarmless ==
    failedStage = "callback" => aborts = 0 /\ result # "failure" /\ dfu_pc # "except"

\* C20: in dry-run mode the supervision loop never writes the shutdown-request
\* register and never invokes poweroff, and a cycle that begins in SHUTDOWN
\* still ends in DEAD.
C20_DryRunNoAction ==
    /\ [](dry_run =>
            /\ sdWrites = 0 /\ poweroffs = 0
            /\ \A i \in 1 .. Len(bus) : bus[i].reg # REG_SHUTDOWN)
    /\ [][dry_run /\ state = "SHUTDOWN" /\ CycleFired => state' = "DEAD" /\ sm_alive']_vars

C20_Witness ==
    dry_run /\ state = "DEAD" /\ entered["SHUTDOWN"] = 1 /\ sdWrites = 0 /\ poweroffs = 0

\* C14: the image of n bytes goes out as ceil(n / 4096) blocks numbered from 0
\* in order; every block but the last has 4096 bytes, the last has
\* n - 4096 * (count - 1); the blocks are consecutive slices of the image
\* that start at byte 0 and end at byte n, so their concatenation is the image.
AllBlocksSent == dfu_pc \in {"drain", "commit"} \/ result = "success"

C14_BlockSplit ==
    /\ \A i \in 1 .. Len(sentBlocks) :
          /\ sentBlocks[i].num = i - 1
          /\ sentBlocks[i].off = IF i = 1 THEN 0
                                 ELSE sentBlocks[i - 1].off + sentBlocks[i - 1].len
          /\ sentBlocks[i].len = IF i < total_blocks THEN FLASH_BLOCK_SIZE
                                 ELSE firmware_len - FLASH_BLOCK_SIZE * (total_blocks - 1)
          /\ sentBlocks[i].len \in 1 .. FLASH_BLOCK_SIZE
    /\ AllBlocksSent =>
          /\ Len(sentBlocks) = total_blocks
          /\ FLASH_BLOCK_SIZE * total_blocks >= firmware_len
          /\ FLASH_BLOCK_SIZE * (total_blocks - 1) < firmware_len
          /\ IF total_blocks = 0 THEN firmware_len = 0
             ELSE sentBlocks[total_blocks].off + sentBlocks[total_blocks].len = firmware_len

C14_Witness ==
    /\ result = "success"
    /\ firmware_len = FLASH_BLOCK_SIZE * 3 + 100
    /\ Len(sentBlocks) = 4
    /\ sentBlocks[4] = [num |-> 3, off |-> FLASH_BLOCK_SIZE * 3, len |-> 100]
\* C19 as stated: the response to a failed firmware update tells a corrupted
\* or wrongly sized block (CRC_ERROR, DATA_LENGTH_ERROR) from a bus fault or a
\* timeout: no failure of the first kind gets the response of one of the second.
C19_FailureCauseReported ==
    \A p \in outcomes, q \in outcomes :
        p[1] = "image" /\ q[1] = "bus" => p[2] # q[2]
\* C11 as stated: while a transfer waits in a polling loop (the readiness gate
\* or the drain, after at least one sleep) the supervision loop can still take
\* its next cycle.
SupervisionStep ==
    \E readOk \in BOOLEAN :
        Cycle(readOk, DEFAULT_BLACKOUT_VOLTAGE_LIMIT + 1, MaxStep, TRUE, TRUE, TRUE)

C11_SupervisionDuringTransfer ==
    (dfu_pc \in {"gate", "drain"} /\ polls >= 1 /\ ~exited /\ sm_alive
        /\ now + MaxStep <= MaxTime)
    => ENABLED SupervisionStep
\* C12 as stated: when a termination request ends the process while a started
\* transfer has not reached its commit, the abort register has been written.
C12_CancelAborts ==
    (exited /\ dfu_pc \in {"gate", "upload", "drain", "commit"}) => aborts >= 1
\* C15: upload_firmware_block makes exactly one write transaction, to register
\* 0x43, of 8 + len(data) bytes: the CRC-32 in 4 bytes big-endian, block_num
\* and len(data) in 2 bytes big-endian each, then data; the CRC-32 is that of
\* the bytes after the CRC field.
C15_BlockFrame ==
    (call.op = "upload_firmware_block" /\ call.out # "ValueError") =>
        /\ Len(call.tx) = 1
        /\ call.tx[1].reg = REG_DFU_UPLOAD
        /\ LET m == call.tx[1].data
               n == Len(req.data)
           IN /\ Len(m) = 8 + n
              /\ m[5] * 256 + m[6] = req.num
              /\ m[7] * 256 + m[8] = n
              /\ SubSeq(m, 9, Len(m)) = req.data
              /\ <<m[1] * 256 + m[2], m[3] * 256 + m[4]>> = crc32(SubSeq(m, 5, Len(m)))

\* block 5 of ten zero bytes: CRC-32 0x2E3B9250
C15_Witness ==
    /\ call.op = "upload_firmware_block" /\ call.out = "ok"
    /\ req.num = 5 /\ req.data = Zeros(10)
    /\ call.tx = <<[reg |-> REG_DFU_UPLOAD,
                    data |-> <<46, 59, 146, 80, 0, 5, 0, 10>> \o Zeros(10)]>>

\* C18: a block of more than 4096 bytes, and a raw write of a byte outside
\* 0..255 by i2c_write_byte or i2c_write_bytes, ends in a ValueError with no
\* transaction on the bus.
Rejected == call.out = "ValueError" /\ call.tx = <<>> /\ regs = [r \in ThresholdRegs |-> <<0, 0>>]

C18_RejectedBeforeBus ==
    /\ (call.op = "upload_firmware_block" /\ Len(req.data) > FLASH_BLOCK_SIZE) => Rejected
    /\ (call.op \in {"i2c_write_byte", "i2c_write_bytes"}
            /\ \E i \in 1 .. Len(req.data) : req.data[i] \notin 0 .. 255) => Rejected

C18_Witness ==
    /\ call.op = "upload_firmware_block"
    /\ Len(req.data) = FLASH_BLOCK_SIZE + 1
    /\ Rejected
\* C16 as stated: every analog channel accessor works with raw / 65536 when
\* the firmware major version is 2 or more and with raw / 256 when it is less.
C16_WidthFollowsVersion ==
    (call.via = "accessor" /\ call.out = "ok") =>
        call.divisor = (IF fw_major >= 2 THEN 65536 ELSE 256)

\* C17 as stated: for every value from 0 to the scale, both included, the raw
\* integer write_analog sends fits the register width, and reading the
\* register back in the same encoding gives a value within one quantization
\* step of the value written.
AnalogCall == call.via \in {"dispatch", "byte", "word"} /\ call.divisor # 0

C17_RoundTrip ==
    /\ (AnalogCall /\ call.op = "write") => call.raw \in 0 .. call.divisor - 1
    /\ (AnalogCall /\ call.op = "read" /\ call.out = "ok"
            /\ lastSet[call.reg] # <<>> /\ lastSet[call.reg][2] = call.divisor) =>
          LET diff == call.divisor * lastSet[call.reg][1] - call.raw * Grain
          IN -Grain <= diff /\ diff <= Grain
\* C21 as stated: every polling cycle that begins in SHUTDOWN ends in DEAD,
\* whatever the outcome of the shutdown-request write and of poweroff.
C21_Original ==
    [][state = "SHUTDOWN" /\ CycleFired => state' = "DEAD"]_vars

\* C21: a polling cycle that begins in SHUTDOWN ends in DEAD when its shutdown
\* action returns, which it always does in dry-run mode; when the write or
\* poweroff raises, the cycle leaves the loop with the state still SHUTDOWN.
C21_ShutdownToDead ==
    [][state = "SHUTDOWN" /\ CycleFired =>
          /\ sm_alive' => state' = "DEAD"
          /\ ~sm_alive' => state' = "SHUTDOWN" /\ ~dry_run
          /\ dry_run => sm_alive']_vars

C21_Witness ==
    sm_alive /\ state = "DEAD" /\ dwell = 0 /\ ~dry_run /\ sdWrites = 1 /\ poweroffs = 1

\* C22 as stated: a BLACKOUT cycle whose voltage is greater than or equal to
\* the limit goes to OK; it goes to SHUTDOWN only with the voltage below the
\* limit and more than blackout_time_limit elapsed since the blackout began.
C22_BlackoutRecoversAtLimit ==
    [][state = "BLACKOUT" /\ CycleFired =>
          /\ dcin_voltage' >= blackout_voltage_limit => state' = "OK"
          /\ state' = "SHUTDOWN" =>
                /\ dcin_voltage' < blackout_voltage_limit
                /\ now' - blackout_time > blackout_time_limit]_vars

\* C23: the loop writes the watchdog-timeout register at most once, in its
\* START cycle; once it has left START it has written it exactly once, with
\* 10 seconds (10000 ms, big-endian), and no later cycle writes it.
C23_WatchdogArmedOnce ==
    /\ [](/\ wdWrites <= 1
          /\ state # "START" =>
                /\ wdWrites = 1
                /\ wdValue # <<>> /\ wdValue[1] * 256 + wdValue[2] = 10000)
    /\ [][state # "START" => wdWrites' = wdWrites /\ wdValue' = wdValue]_vars

C23_Witness ==
    state = "DEAD" /\ wdWrites = 1 /\ wdValue = <<39, 16>> /\ entered["OK"] >= 1

\* C24 as stated: no transport failure of the voltage read or of the
\* watchdog-arming write ends the supervision loop.
C24_NoCrashOnBusFault ==
    state \in {"START", "OK", "BLACKOUT"} => sm_alive

\* C25: a failed shutdown action ends the loop and the process at once, in
\* SHUTDOWN, with one shutdown-request write and at most one poweroff made;
\* nothing is written or run afterwards.
C25_ShutdownFailureFatal ==
    /\ []((sdWrites >= 1 /\ state = "SHUTDOWN") =>
            ~sm_alive /\ exited /\ sdWrites = 1 /\ poweroffs <= 1)
    /\ []((sdWrites >= 1 /\ poweroffs = 0) => ~sm_alive /\ exited /\ state = "SHUTDOWN")
    /\ [][~sm_alive => UNCHANGED <<sdWrites, poweroffs, state, bus>>]_vars

C25_Witness ==
    ~sm_alive /\ exited /\ state = "SHUTDOWN" /\ sdWrites = 1 /\ poweroffs = 1
\* C26: while a transfer is between its start write and the end of its commit
\* or abort, no other firmware-update request starts: the start write of a
\* request that arrived meanwhile comes after the transfer has returned.
C26_OneSessionAtATime ==
    [][dfu_pc \notin {"idle", "done"} =>
          /\ uploads' = uploads
          /\ startWrites' = startWrites
          /\ firmware_len' = firmware_len]_vars

C26_Witness ==
    pending = 1 /\ uploads = 1 /\ dfu_pc = "drain" /\ blockWrites = 1

\* The transfer has failed or is failing: it is on its way to the abort write
\* or has made it, has not committed and does not report success.
Failing ==
    /\ dfu_pc \in {"abort", "except", "done"}
    /\ commits = 0
    /\ result # "success"
    /\ dfu_pc = "done" => result = "failure" /\ aborts >= 1

\* C27 as stated: once a readiness gate has read CRC_ERROR, DATA_LENGTH_ERROR,
\* WRITE_ERROR or PROTOCOL_ERROR, no further block is uploaded and the
\* transfer fails with an abort.
C27_GateErrorFails ==
    (gateStop # <<>> /\ gateStop[1] \in ErrorStates) =>
        Failing /\ blockWrites = gateStop[2]

\* C28 as stated: once the drain has read an error status, commit is never
\* written in that run and the run reports failure.
C28_DrainErrorAborts ==
    drainError => Failing

\* C29: when the window of a readiness gate or of the drain runs out, the
\* transfer aborts and reports failure; no block and no commit is written
\* afterwards.
C29_TimeoutAborts ==
    /\ [](cause = "timeout" => Failing)
    /\ [][cause = "timeout" => blockWrites' = blockWrites /\ commits' = commits]_vars

C29_Witness ==
    /\ cause = "timeout" /\ failedStage = "gate"
    /\ lastStatus \in {"PREPARING", "QUEUE_FULL"}
    /\ dfu_pc = "done" /\ result = "failure" /\ aborts = 1 /\ blockWrites = 1

\* C30: a readiness gate that reads IDLE fails at that poll: the block it was
\* waiting for is not uploaded and the transfer fails with an abort.
C30_IdleFailsGate ==
    /\ (gateStop # <<>> /\ gateStop[1] = "IDLE") => Failing /\ blockWrites = gateStop[2]
    /\ dfu_pc \in {"gate", "upload"} => lastStatus # "IDLE"

C30_Witness ==
    /\ gateStop = <<"IDLE", 1>>
    /\ dfu_pc = "done" /\ result = "failure" /\ aborts = 1 /\ Len(sentBlocks) = 1
\* C34: every state change is one of START -> OK, OK -> BLACKOUT,
\* BLACKOUT -> OK, BLACKOUT -> SHUTDOWN, SHUTDOWN -> DEAD: none leaves DEAD,
\* none re-enters START, and SHUTDOWN is entered from BLACKOUT only.
Transitions ==
    {<<"START", "OK">>, <<"OK", "BLACKOUT">>, <<"BLACKOUT", "OK">>,
     <<"BLACKOUT", "SHUTDOWN">>, <<"SHUTDOWN", "DEAD">>}

C34_TransitionRelation ==
    [][state' # state => <<state, state'>> \in Transitions /\ CycleFired]_vars

C34_Witness ==
    state = "DEAD" /\ entered["OK"] = 2 /\ entered["BLACKOUT"] = 2 /\ entered["SHUTDOWN"] = 1

\* C35 as stated: when SHUTDOWN is entered, the voltage was below the limit
\* in every cycle since the most recent OK -> BLACKOUT state change, more
\* than blackout_time_limit has elapsed since that change, and the recorded
\* blackout start is the time of that change.
C35_ShutdownAfterSustainedBlackout ==
    [][(state = "BLACKOUT" /\ state' = "SHUTDOWN") =>
          /\ lowSince'
          /\ blackout_time = dipStart
          /\ now' - dipStart > blackout_time_limit]_vars

\* C36: poweroff is invoked only in a cycle whose shutdown-request write has
\* just completed on the bus, in normal mode; a cycle whose write fails
\* invokes no poweroff.
ShutdownWritten(b) ==
    /\ Len(b) >= 1
    /\ b[Len(b)].task = "sm" /\ b[Len(b)].reg = REG_SHUTDOWN /\ b[Len(b)].phase = "write"

C36_NotifyBeforePoweroff ==
    /\ [](poweroffs <= sdWrites)
    /\ [][poweroffs' # poweroffs =>
            /\ ~dry_run /\ state = "SHUTDOWN"
            /\ sdWrites' # sdWrites
            /\ ShutdownWritten(bus')]_vars
    /\ [][(sdWrites' # sdWrites /\ ~ShutdownWritten(bus')) =>
            poweroffs' = poweroffs /\ ~sm_alive']_vars

C36_Witness ==
    state = "DEAD" /\ dwell = 0 /\ poweroffs = 1 /\ ShutdownWritten(bus)

C38_ShutdownLatched ==
    [][(state = "SHUTDOWN" /\ CycleFired) =>
          /\ state' \in {"SHUTDOWN", "DEAD"}
          /\ state' = "SHUTDOWN" => ~sm_alive'
          /\ ~dry_run => sdWrites' = 1]_vars

C38_Witness ==
    /\ state = "DEAD" /\ dwell = 0 /\ lastReadOk
    /\ dcin_voltage > blackout_voltage_limit /\ sdWrites = 1
\* C31: blocks are written one at a time in ascending order 0 .. n-1, each
\* once; a block write happens only from the position reached by a gate poll
\* that read UPDATING or READY_TO_COMMIT after the previous block write.
ReadyStates == {"UPDATING", "READY_TO_COMMIT"}

StatusRead(b) ==
    /\ Len(b) >= 1
    /\ b[Len(b)].task = "dfu" /\ b[Len(b)].reg = REG_DFU_STATUS /\ b[Len(b)].phase = "read"

BlockLog == SelectSeq(writeLog, LAMBDA w : w.reg = REG_DFU_UPLOAD)

C31_OneBlockAtATime ==
    /\ [](/\ Len(sentBlocks) = blockWrites
          /\ blockWrites <= total_blocks
          /\ \A i \in 1 .. Len(sentBlocks) : sentBlocks[i].num = i - 1
          /\ \A i \in 1 .. Len(BlockLog) : ~BlockLog[i].ok => i = Len(BlockLog)
          /\ dfu_pc = "upload" => lastStatus \in ReadyStates /\ block_num = blockWrites)
    /\ [][dfu_pc' = "upload" =>
            /\ dfu_pc = "gate"
            /\ StatusRead(bus') /\ lastStatus' \in ReadyStates]_vars
    /\ [][Len(writeLog') > Len(writeLog) /\ writeLog'[Len(writeLog')].reg = REG_DFU_UPLOAD =>
            /\ dfu_pc = "upload" /\ dfu_pc' # "upload"
            /\ blockWrites' <= blockWrites + 1]_vars

C31_Witness ==
    dfu_pc = "upload" /\ blockWrites = 2 /\ polls >= 1 /\ lastStatus = "READY_TO_COMMIT"

\* C32 as stated: a run that has reported failure has attempted exactly one
\* abort write, also when that write failed.
C32_OneAbortAttempt ==
    (dfu_pc = "done" /\ result = "failure") => aborts = 1

\* C33: when a run of n blocks succeeds the callback has been called n times
\* with (1, n), ..., (n, n) in that order; call k is made in the step that
\* writes block k-1, before the gate of block k.
C33_ProgressCalls ==
    /\ [](result = "success" =>
            /\ Len(callbackArgs) = total_blocks
            /\ \A k \in 1 .. Len(callbackArgs) : callbackArgs[k] = <<k, total_blocks>>)
    /\ [](Len(callbackArgs) = progressCalls /\ Len(callbackArgs) = blockWrites)
    /\ [][Len(callbackArgs') > Len(callbackArgs) =>
            /\ dfu_pc = "upload" /\ dfu_pc' \in {"gate", "drain", "except"}
            /\ Len(callbackArgs') = Len(callbackArgs) + 1
            /\ blockWrites' = Len(callbackArgs')
            /\ callbackArgs'[Len(callbackArgs')][1] = block_num + 1]_vars

C33_Witness ==
    result = "success" /\ total_blocks = 3 /\ callbackArgs = <<<<1, 3>>, <<2, 3>>, <<3, 3>>>>

\* C39: the first DFU write of a run is the start write; a run that has
\* reported success ended with a commit write that succeeded, a run that has
\* reported failure ended with an abort write; no start or block write
\* follows a commit or abort write, and nothing follows a commit write that
\* succeeded.
C39_WriteOrder ==
    /\ dfu_pc # "idle" => Len(writeLog) >= 1 /\ writeLog[1].reg = REG_DFU_START
    /\ (dfu_pc = "done" /\ result = "success") =>
            writeLog[Len(writeLog)] = Written(REG_DFU_COMMIT, TRUE)
    /\ (dfu_pc = "done" /\ result = "failure") =>
            writeLog[Len(writeLog)].reg = REG_DFU_ABORT
    /\ dfu_pc = "done" => result \in {"success", "failure"}
    /\ \A i \in 1 .. Len(writeLog) : \A j \in i + 1 .. Len(writeLog) :
          /\ writeLog[i].reg \in {REG_DFU_COMMIT, REG_DFU_ABORT} =>
                writeLog[j].reg \notin {REG_DFU_START, REG_DFU_UPLOAD}
          /\ writeLog[i] # Written(REG_DFU_COMMIT, TRUE)

C39_Witness ==
    /\ dfu_pc = "done" /\ result = "failure"
    /\ Len(writeLog) = 5
    /\ writeLog[4] = Written(REG_DFU_COMMIT, FALSE)
    /\ writeLog[5] = Written(REG_DFU_ABORT, TRUE)

\* C40: a run that has started ends, with success or failure as its result:
\* neither the gate nor the drain polls forever.
C40_UploadTerminates ==
    /\ [](dfu_pc = "done" => result \in {"success", "failure"})
    /\ (dfu_pc # "idle") ~> (dfu_pc = "done")

C40_Witness ==
    dfu_pc = "done" /\ result = "failure" /\ cause = "timeout" /\ failedStage = "drain"
    /\ polls = MaxPolls
====
